---- MODULE Spec2Model ----
(***************************************************************************)
(* mpesa-connect: the Webhook store (models/webhook.js), sendWebhook and    *)
(* retryFailedWebhooks (services/webhook-service.js), and the route      *)
(* handlers of the STK, C2B and B2C APIs that keep the Transaction        *)
(* collection and create webhooks (api/v1/{stk,c2b,b2c}/handlers.js), and *)
(* the account handlers (api/v1/auth/handlers.js) with the jwt strategy   *)
(* of server.js.                                                          *)
(*                                                                           *)
(* Every `await` on the store or on the network is a point where another     *)
(* delivery may run, so one sendWebhook call is a task that moves through    *)
(* program positions; the store is written field by field, as mongoose's     *)
(* save() writes only the paths the document has marked modified.            *)
(***************************************************************************)
EXTENDS Integers, FiniteSets, TLC

\* ---------------------------------------------------------------- bounds
MaxNotif == 2      \* webhook documents the store may hold
MaxSweeps == 2     \* retryFailedWebhooks calls that may run at the same time
MaxBatch == 2      \* largest batchSize passed to retryFailedWebhooks
MaxTasks == 2      \* sendWebhook calls that may run at the same time
MaxFaults == 1     \* storage operations that may throw (SpecF and SpecH)
MaxKinds == 1      \* transaction types the store may hold at the same time
MaxMint == 2       \* reset tokens forgotPassword may issue
MaxResets == 2     \* resetPassword requests that may run at the same time
MaxClock == 2      \* hours the clock of the account handlers may count

\* ------------------------------------------------------ program constants
MaxRetries == 5    \* const maxRetries = 5; attempts: { $lt: 5 }
RetryFloor == 1    \* 5 * 60 * 1000 ms; the clock counts units of five minutes
ResetLife == 1     \* Date.now() + 3600000 ms, in hours
TokenLife == 1     \* expiresIn: '1h'

\* Dates are held as their age, Date.now() - date, in units of the clock: the
\* code only compares a date with the current instant. An age beyond the
\* retry floor is held up to RetryFloor + 2, so that of two dates beyond the
\* floor one can be the older; new Date() has age 0.
Oldest == RetryFloor + 2

StatusEnum == {"PENDING", "SENT", "FAILED", "RETRYING"}
TypeEnum == {"STK", "C2B_CONFIRMATION", "C2B_VALIDATION", "B2C_RESULT", "B2C_TIMEOUT"}

NIds == 1..MaxNotif
SweepIds == 1..MaxSweeps
CallbackOrigin == 0
ValidationOrigin == MaxSweeps + 1
TaskIds == (0..ValidationOrigin) \X NIds
BatchSizes == 1..MaxBatch

NoDate == -1
NoUser == "none"
NoError == "none"
NoResponse == 0
NoDestination == <<NoUser, "none">>
InvalidConfig == "Invalid webhook configuration"
StorageError == "storage error"

\* What the destination may answer: an HTTP status, no connection, no answer in 10 s.
HttpOk == {200}
HttpBad == {500}
NetFailures == {"timeout of 10000ms exceeded"}

\* axios rejects with this message on a status outside 2xx
HttpErrorMessage(code) ==
  CASE code = 500 -> "Request failed with status code 500"
    [] OTHER -> "Request failed"

\* ------------------------------------------------------------------ users
\* The accounts of the store: webhookConfig.secret and the endpoints of
\* webhookConfig.endpoints of each. The schema has no b2cTimeout endpoint, so
\* no account has one.
Users == {"u1", "u2"}
UserConfig ==
  [u \in Users |->
     IF u = "u1"
       THEN [secret |-> TRUE, stkCallback |-> TRUE, c2bConfirmation |-> TRUE,
             c2bValidation |-> TRUE, b2cResult |-> TRUE, b2cTimeout |-> FALSE]
       ELSE [secret |-> FALSE, stkCallback |-> TRUE, c2bConfirmation |-> FALSE,
             c2bValidation |-> FALSE, b2cResult |-> FALSE, b2cTimeout |-> FALSE]]

\* ----------------------------------------------------------- transactions
\* The transactions the store may hold: two STK transactions, a B2C and a C2B
\* transaction. The network answers the submission of transaction t with the
\* correlation id t (CheckoutRequestID, ConversationID or the C2B reference);
\* 0 is an id no transaction carries.
TxIds == 1..4
TxType == [t \in TxIds |-> IF t <= 2 THEN "STK" ELSE IF t = 3 THEN "B2C" ELSE "C2B"]
CheckoutIds == {0} \cup TxIds

\* The correlation id of a callback whose payload carries null for it, or no
\* such member: the handlers' routes validate nothing.
NullId == -1
CallbackIds == CheckoutIds \cup {NullId}
TxOwner == [t \in TxIds |-> IF t = 2 THEN "u2" ELSE "u1"]
TxStatusEnum == {"PENDING", "COMPLETED", "FAILED", "CANCELLED"}
ResultCodes == {0, 1032}
QueryCodes == ResultCodes \cup {2001}

VARIABLES
  webhooks,      \* the Webhook collection: id -> document (NoDoc when absent)
  transactions,  \* the Transaction collection: id -> [status, resultCode, bound]
  tasks,         \* the running sendWebhook calls
  sweeps,        \* the running retryFailedWebhooks calls
  reply,         \* what the call that ended in the last step returned
  reentrant,     \* whether a sweep may start while another one is running
  faults,        \* storage operations that may still throw
  handlers       \* the route handlers that are waiting: submissions, validations;
                 \* auth: the User collection and the account handlers' requests

vars == <<webhooks, transactions, tasks, sweeps, reply, reentrant, faults, handlers>>

\* resultCode of a transaction that has none yet.
NoCode == -1

\* A transaction the store does not hold.
NoTx == [status |-> "none", resultCode |-> NoCode, bound |-> FALSE]

\* A lookup that ignores whether the transaction carries the correlation id.
Found_Unbound(type, cid) ==
  {t \in TxIds : TxType[t] = type /\ transactions[t] # NoTx /\ t = cid}

\* The documents Transaction.findOne({<correlation id>: cid, type}) may
\* return: the transaction that carries cid; for null, which the store
\* matches with a missing path, any transaction of the type that carries no
\* correlation id.
Found(type, cid) ==
  {t \in TxIds :
     /\ TxType[t] = type /\ transactions[t] # NoTx
     /\ IF cid = NullId THEN ~transactions[t].bound
                        ELSE t = cid /\ transactions[t].bound}

Resolves(type, cid) == Found(type, cid) # {}

\* ------------------------------------------------------------ user accounts
Emails == {"a@x", "b@x"}
Passwords == {"p1", "p2"}

\* resetPasswordToken: crypto.randomBytes never repeats; the k-th token
\* issued is k.
NoResetToken == 0
ResetTokens == 1 .. MaxMint
ResetReqs == 1 .. MaxResets

\* The refresh token lives '7d', longer than the clock counts.
RefreshLife == MaxClock + 1

\* bcrypt.hash(password, salt)
Hash(p) == <<"bcrypt", p>>

NoAccount ==
  [password |-> <<"none", "none">>, resetToken |-> NoResetToken,
   resetExpires |-> NoDate]

\* A resetPassword request that is not running.
IdleReset ==
  [pc |-> "idle", email |-> "none", password |-> "none", token |-> NoResetToken]

\* jwt.sign(payload, key, { expiresIn })
Sign(payload, key, exp) == [key |-> key, payload |-> payload, exp |-> exp]
NoJwt == Sign([none |-> TRUE], "none", 0)
NoTokens == [access |-> NoJwt, refresh |-> NoJwt]

\* The accounts, the resetPassword requests under way, the tokens the client
\* was issued last, the time, the number of reset tokens issued and the reset
\* tokens a resetPassword has succeeded with.
NoAuth ==
  [users |-> [e \in Emails |-> NoAccount],
   resets |-> [r \in ResetReqs |-> IdleReset],
   tokens |-> NoTokens, now |-> 0, minted |-> 0, used |-> {}]

\* No handler is waiting: no submission is under way, no validation awaits
\* its sendWebhook call, no account exists.
IdleHandlers ==
  [submissions |-> [t \in TxIds |-> "idle"], validations |-> {}, auth |-> NoAuth]

NoDoc ==
  [userId |-> NoUser, transactionId |-> 0, type |-> "none", status |-> "none",
   payload |-> [resultCode |-> 0, status |-> "none"],
   destination |-> NoDestination, attempts |-> 0,
   lastAttempt |-> NoDate, response |-> NoResponse, errorMessage |-> NoError]

Exists(n) == webhooks[n] # NoDoc
Existing == {n \in NIds : Exists(n)}

\* user.webhookConfig.endpoints.<endpoint>: the URL user u registered.
EndpointUrl(u, endpoint) == <<u, endpoint>>

\* A sendWebhook call that is not running.
IdleTask ==
  [pc |-> "idle", doc |-> NoDoc, mod |-> {}]

IdleSweep == [pc |-> "idle", selected |-> {}]

\* The return of a call: the call, its subject (a task, a sweep or a
\* CheckoutRequestID), the return statement it took and the value returned.
NoReply == [op |-> "none", of |-> <<0, 0>>, ret |-> "none", value |-> 0]
Return(op, of, ret, value) == [op |-> op, of |-> of, ret |-> ret, value |-> value]

\* The webhooks the store may hold: the bound is one lower when sweeps may
\* overlap.
Capacity == IF reentrant THEN MaxNotif - 1 ELSE MaxNotif

\* ---------------------------------------------------------------- mongoose
\* doc.path = value: the path is marked modified when the value differs.
SetPath(d, path, value) ==
  [doc |-> [d.doc EXCEPT ![path] = value],
   mod |-> IF d.doc[path] = value THEN d.mod ELSE d.mod \cup {path}]

\* Validation of save(): the modified enum paths must hold a value of the enum.
Valid(d) == ("status" \in d.mod) => (d.doc.status \in StatusEnum)

\* A save() that writes the whole of the caller's copy.
Saved_Whole(stored, d) == d.doc

\* save() of an existing document: $set of the modified paths only.
Saved(stored, d) ==
  [f \in DOMAIN stored |-> IF f \in d.mod THEN d.doc[f] ELSE stored[f]]

Loaded(n) == [doc |-> webhooks[n], mod |-> {}]

\* A sendWebhook call holds its own copy of the document. Of that copy the
\* task keeps the paths the rest of the call still reads; the others are
\* blanked, which changes nothing the call does. The POST reads payload and
\* destination.
Keep(doc, paths) == [f \in DOMAIN doc |-> IF f \in paths THEN doc[f] ELSE NoDoc[f]]

Running == {t \in TaskIds : tasks[t].pc \notin {"idle", "done"}}

Min(a, b) == IF a < b THEN a ELSE b

\* A sendWebhook call that has returned: the call of a sweep stays settled
\* until Promise.all returns, the call a handler started is awaited by no one.
TaskDone(t) == IF t[1] = CallbackOrigin THEN IdleTask ELSE [IdleTask EXCEPT !.pc = "done"]

Returned(t, ret) == Return("sendWebhook", t, ret, 0)

\* ------------------------------------------------------------ sendWebhook
\* A findById step without the early return on status SENT.
Find_NoSentCheck(t) ==
  /\ tasks[t].pc = "find"
  /\ LET d == Loaded(t[2]) IN
       tasks' = [tasks EXCEPT ![t] =
                   [@ EXCEPT !.pc = "attempt", !.mod = d.mod,
                      !.doc = Keep(d.doc, {"userId", "status", "attempts",
                                           "lastAttempt", "errorMessage",
                                           "payload", "destination"})]]
  /\ reply' = NoReply
  /\ UNCHANGED <<webhooks, transactions, sweeps, reentrant, faults, handlers>>

\* Webhook.findById(webhookId); a SENT webhook is left alone.
Find(t) ==
  /\ tasks[t].pc = "find"
  /\ LET d == Loaded(t[2]) IN
       IF d.doc.status = "SENT"
         THEN /\ tasks' = [tasks EXCEPT ![t] = TaskDone(t)]
              /\ reply' = Returned(t, "alreadySent")
         ELSE /\ tasks' = [tasks EXCEPT ![t] =
                             [@ EXCEPT !.pc = "attempt", !.mod = d.mod,
                                !.doc = Keep(d.doc, {"userId", "status", "attempts",
                                                     "lastAttempt", "errorMessage",
                                                     "payload", "destination"})]]
              /\ reply' = NoReply
  /\ UNCHANGED <<webhooks, transactions, sweeps, reentrant, faults, handlers>>

\* The document of a webhook whose owner has no secret, before its save().
NoSecretDoc(d) ==
  SetPath(SetPath(d, "status", "FAILED"), "errorMessage", InvalidConfig)

\* The document of the attempt, before its save(): attempts += 1,
\* lastAttempt = new Date(), status = 'PENDING'.
AttemptDoc(d) ==
  SetPath(SetPath(SetPath(d, "attempts", d.doc.attempts + 1),
                  "lastAttempt", 0), "status", "PENDING")

\* User.findById(webhook.userId); without a secret the webhook is saved as
\* FAILED and the call returns; otherwise the attempt is saved and the POST
\* is issued.
Attempt(t) ==
  /\ tasks[t].pc = "attempt"
  /\ LET n == t[2]
         local == [doc |-> tasks[t].doc, mod |-> tasks[t].mod]
         user == UserConfig[local.doc.userId]
         d == IF user.secret THEN AttemptDoc(local) ELSE NoSecretDoc(local)
     IN /\ Valid(d)
        /\ webhooks' = [webhooks EXCEPT ![n] = Saved(@, d)]
        /\ tasks' = [tasks EXCEPT ![t] =
                       IF user.secret
                         THEN [@ EXCEPT !.pc = "post", !.mod = {},
                                !.doc = Keep(d.doc, {"status", "lastAttempt",
                                                     "response", "payload",
                                                     "destination", "userId"})]
                         ELSE TaskDone(t)]
        /\ reply' = IF user.secret THEN NoReply ELSE Returned(t, "noSecret")
  /\ UNCHANGED <<transactions, sweeps, reentrant, faults, handlers>>

\* The payloads a webhook may carry.
Payloads ==
  [resultCode : ResultCodes, status : TxStatusEnum \cup {"TIMEOUT", "none"}]

\* user.webhookConfig.secret of the accounts that have one.
SecretOf(u) == <<"secret", u>>

\* JSON.stringify(webhook.payload): the members, in the order of the object.
JsonStringify(payload) ==
  <<"{", "resultCode", ":", payload.resultCode, ",",
    "status", ":", payload.status, "}">>

\* crypto.createHmac('sha256', secret).update(bytes).digest('hex'): a function
\* of the key and the bytes, taken to be free of collisions.
Hmac(secret, bytes) == <<"hmac-sha256", secret, bytes>>

\* A request whose body leaves out a member of the object.
AxiosBody_Partial(data) == <<"{", "status", ":", data.status, "}">>

\* axios serializes an object given as `data` with JSON.stringify.
AxiosBody(data) == JsonStringify(data)

\* The POST of call t: the URL, the signature header and the body sent.
Request(t) ==
  LET webhook == tasks[t].doc
  IN [url |-> webhook.destination,
      signature |-> Hmac(SecretOf(webhook.userId), JsonStringify(webhook.payload)),
      body |-> AxiosBody(webhook.payload)]

\* A delivered webhook whose response is not recorded.
SentDoc_NoResponse(d, code) == SetPath(d, "status", "SENT")

\* The document of a delivered webhook, before its save().
SentDoc(d, code) == SetPath(SetPath(d, "status", "SENT"), "response", code)

\* The destination answers 2xx: status SENT and the response are saved.
RespondOk(t, code) ==
  /\ tasks[t].pc = "post"
  /\ LET n == t[2]
         d == SentDoc([doc |-> tasks[t].doc, mod |-> tasks[t].mod], code)
     IN /\ Valid(d)
        /\ webhooks' = [webhooks EXCEPT ![n] = Saved(@, d)]
        /\ tasks' = [tasks EXCEPT ![t] = TaskDone(t)]
        /\ reply' = Return("sendWebhook", t, "sent", code)
  /\ UNCHANGED <<transactions, sweeps, reentrant, faults, handlers>>

\* The catch block: the webhook is read again, status FAILED and the message
\* are set, and FAILED_PERMANENT once attempts has reached maxRetries.
CaughtDoc(d, message) ==
  LET failed == SetPath(SetPath(d, "status", "FAILED"), "errorMessage", message)
  IN IF d.doc.attempts >= MaxRetries
       THEN SetPath(failed, "status", "FAILED_PERMANENT")
       ELSE failed

Catch(t, message) ==
  LET d == CaughtDoc(Loaded(t[2]), message)
  IN [tasks[t] EXCEPT !.pc = "catchSave", !.doc = Keep(d.doc, d.mod),
                      !.mod = d.mod]

\* The POST fails (status outside 2xx, no connection, no answer in time):
\* control enters the catch block, which reads the webhook again.
RespondFail(t, message) ==
  /\ tasks[t].pc = "post"
  /\ tasks' = [tasks EXCEPT ![t] = Catch(t, message)]
  /\ reply' = NoReply
  /\ UNCHANGED <<webhooks, transactions, sweeps, reentrant, faults, handlers>>

\* save() of the catch block; a validation error is logged and swallowed.
CatchSave(t) ==
  /\ tasks[t].pc = "catchSave"
  /\ LET n == t[2]
         d == [doc |-> tasks[t].doc, mod |-> tasks[t].mod]
     IN /\ webhooks' = IF Valid(d) THEN [webhooks EXCEPT ![n] = Saved(@, d)]
                                   ELSE webhooks
        /\ tasks' = [tasks EXCEPT ![t] = TaskDone(t)]
        /\ reply' = Returned(t, IF Valid(d) THEN "failed" ELSE "updateError")
  /\ UNCHANGED <<transactions, sweeps, reentrant, faults, handlers>>

\* ---------------------------------------------------- retryFailedWebhooks
\* Webhook.find({status: 'FAILED', attempts: {$lt: 5},
\*               lastAttempt: {$lt: new Date(Date.now() - 5 * 60 * 1000)}})
Eligible_NoFloor(n) ==
  /\ Exists(n)
  /\ webhooks[n].status = "FAILED"
  /\ webhooks[n].attempts < MaxRetries

Eligible_AnyStatus(n) ==
  /\ Exists(n)
  /\ webhooks[n].status \in {"FAILED", "PENDING"}
  /\ webhooks[n].attempts < MaxRetries
  /\ webhooks[n].lastAttempt # NoDate
  /\ webhooks[n].lastAttempt > RetryFloor

Eligible(n) ==
  /\ Exists(n)
  /\ webhooks[n].status = "FAILED"
  /\ webhooks[n].attempts < MaxRetries
  /\ webhooks[n].lastAttempt # NoDate
  /\ webhooks[n].lastAttempt > RetryFloor

\* A query whose limit is not applied.
Limit_All(matches, batchSize) == {matches}

\* .limit(batchSize) of a query without a sort: any batchSize of the matches.
Limit(matches, batchSize) ==
  {sel \in SUBSET matches :
     Cardinality(sel) = Min(batchSize, Cardinality(matches))}

\* A sweep that calls sendWebhook for one of the selected webhooks only.
StartTasks_FirstOnly(s, sel) ==
  [t \in TaskIds |->
     IF t[1] = s /\ t[2] \in sel /\ \A m \in sel : t[2] <= m
       THEN [IdleTask EXCEPT !.pc = "find"] ELSE tasks[t]]

\* failedWebhooks.map(webhook => this.sendWebhook(webhook._id)): every
\* selected webhook gets its own sendWebhook call.
StartTasks(s, sel) ==
  [t \in TaskIds |->
     IF t[1] = s /\ t[2] \in sel THEN [IdleTask EXCEPT !.pc = "find"] ELSE tasks[t]]

RetryFailedWebhooks(s, batchSize) ==
  /\ sweeps[s].pc = "idle"
  /\ \A r \in SweepIds : r < s => sweeps[r].pc = "running"
  /\ reentrant \/ \A r \in SweepIds : sweeps[r].pc = "idle"
  /\ \E sel \in Limit({n \in NIds : Eligible(n)}, batchSize) :
       /\ Cardinality(Running) + Cardinality(sel) <= MaxTasks
       /\ sweeps' = [sweeps EXCEPT ![s] =
                       [pc |-> "running", selected |-> sel]]
       /\ tasks' = StartTasks(s, sel)
  /\ reply' = NoReply
  /\ UNCHANGED <<webhooks, transactions, reentrant, faults, handlers>>

\* await Promise.all(retryPromises); return failedWebhooks.length
SweepReturn(s) ==
  /\ sweeps[s].pc = "running"
  /\ \A n \in sweeps[s].selected : tasks[<<s, n>>].pc = "done"
  /\ sweeps' = [sweeps EXCEPT ![s] = IdleSweep]
  /\ tasks' = [t \in TaskIds |-> IF t[1] = s THEN IdleTask ELSE tasks[t]]
  /\ reply' = Return("retryFailedWebhooks", <<s, 0>>, "count",
                     Cardinality(sweeps[s].selected))
  /\ UNCHANGED <<webhooks, transactions, reentrant, faults, handlers>>

\* ------------------------------------------------------------ stkCallback
\* The status stkCallback derives from ResultCode.
StkStatus(code) == IF code = 0 THEN "COMPLETED" ELSE "FAILED"

NewWebhook(t, code) ==
  [NoDoc EXCEPT !.userId = TxOwner[t], !.transactionId = t, !.type = "STK",
                !.status = "PENDING",
                !.payload = [resultCode |-> code, status |-> StkStatus(code)],
                !.destination = EndpointUrl(TxOwner[t], "stkCallback")]

\* transaction.resultCode, transaction.status of the callback; save().
StkUpdate(cid, code) ==
  [transactions EXCEPT ![cid].status = StkStatus(code), ![cid].resultCode = code]

\* The callback of the network for CheckoutRequestID cid with ResultCode code:
\* the transaction is updated, and when its owner has an stkCallback endpoint
\* a webhook is saved and sendWebhook is started without being awaited.
StkCallback(cid, code) ==
  /\ Cardinality(Existing) < Capacity
  /\ Cardinality(Running) < MaxTasks
  /\ IF ~Resolves("STK", cid)
       THEN UNCHANGED <<transactions, webhooks, tasks>>
       ELSE \E tx \in Found("STK", cid) :
            /\ transactions' = StkUpdate(tx, code)
            /\ IF UserConfig[TxOwner[tx]].stkCallback
                 THEN LET n == CHOOSE i \in NIds \ Existing :
                                    \A j \in NIds \ Existing : i <= j
                      IN /\ webhooks' = [webhooks EXCEPT ![n] = NewWebhook(tx, code)]
                         /\ tasks' = [tasks EXCEPT ![<<CallbackOrigin, n>>] =
                                        [IdleTask EXCEPT !.pc = "find"]]
                 ELSE UNCHANGED <<webhooks, tasks>>
  /\ reply' = Return("stkCallback", <<cid, code>>, "success", 200)
  /\ UNCHANGED <<sweeps, reentrant, faults, handlers>>

\* ---------------------------------------------------- the other callbacks
\* The id of the next Webhook document.
NewId == CHOOSE i \in NIds \ Existing : \A j \in NIds \ Existing : i <= j

\* save() of a new Webhook validates type and status against their enums.
ValidNew(doc) == doc.type \in TypeEnum /\ doc.status \in StatusEnum

\* webhook.save() and sendWebhook(webhook._id) of a handler; a document the
\* schema rejects is not saved and the handler's catch block is entered.
Deliver(doc, origin) ==
  IF ValidNew(doc)
    THEN /\ webhooks' = [webhooks EXCEPT ![NewId] = doc]
         /\ tasks' = [tasks EXCEPT ![<<origin, NewId>>] = [IdleTask EXCEPT !.pc = "find"]]
    ELSE UNCHANGED <<webhooks, tasks>>

\* The status b2cResult derives from ResultCode.
B2cStatus(code) == IF code = 0 THEN "COMPLETED" ELSE "FAILED"

B2cUpdate(cid, code) ==
  [transactions EXCEPT ![cid].status = B2cStatus(code), ![cid].resultCode = code]

B2cWebhook(t, code) ==
  [NoDoc EXCEPT !.userId = TxOwner[t], !.transactionId = t, !.type = "B2C",
                !.status = "PENDING",
                !.payload = [resultCode |-> code, status |-> B2cStatus(code)],
                !.destination = EndpointUrl(TxOwner[t], "b2cResult")]

\* The result callback of the network for ConversationID cid.
B2cResult(cid, code) ==
  /\ Cardinality(Existing) < Capacity
  /\ Cardinality(Running) < MaxTasks
  /\ IF ~Resolves("B2C", cid)
       THEN UNCHANGED <<transactions, webhooks, tasks>>
       ELSE \E tx \in Found("B2C", cid) :
            /\ transactions' = B2cUpdate(tx, code)
            /\ IF UserConfig[TxOwner[tx]].b2cResult
                 THEN Deliver(B2cWebhook(tx, code), CallbackOrigin)
                 ELSE UNCHANGED <<webhooks, tasks>>
  /\ reply' = Return("b2cResult", <<cid, code>>, "success", 200)
  /\ UNCHANGED <<sweeps, reentrant, faults, handlers>>

TimeoutUpdate(cid) == [transactions EXCEPT ![cid].status = "TIMEOUT"]

TimeoutWebhook(t) ==
  [NoDoc EXCEPT !.userId = TxOwner[t], !.transactionId = t, !.type = "B2C_TIMEOUT",
                !.status = "PENDING",
                !.payload = [resultCode |-> 0, status |-> "TIMEOUT"],
                !.destination = EndpointUrl(TxOwner[t], "b2cTimeout")]

\* The queue timeout callback of the network for ConversationID cid: save()
\* of the transaction validates its status against the enum.
B2cTimeout(cid) ==
  /\ Cardinality(Existing) < Capacity
  /\ Cardinality(Running) < MaxTasks
  /\ IF Resolves("B2C", cid)
       THEN \E tx \in Found("B2C", cid) :
              IF TimeoutUpdate(tx)[tx].status \in TxStatusEnum
                THEN /\ transactions' = TimeoutUpdate(tx)
                     /\ IF UserConfig[TxOwner[tx]].b2cTimeout
                          THEN Deliver(TimeoutWebhook(tx), CallbackOrigin)
                          ELSE UNCHANGED <<webhooks, tasks>>
                ELSE UNCHANGED <<transactions, webhooks, tasks>>
       ELSE UNCHANGED <<transactions, webhooks, tasks>>
  /\ reply' = Return("b2cTimeout", <<cid, 0>>, "success", 200)
  /\ UNCHANGED <<sweeps, reentrant, faults, handlers>>

\* The transaction types the store holds.
KindsHeld == {TxType[r] : r \in {q \in TxIds : transactions[q] # NoTx}}

\* The store may take a transaction in t.
Room(t) ==
  transactions[t] = NoTx /\ Cardinality(KindsHeld \cup {TxType[t]}) <= MaxKinds

\* The C2B transaction of the store.
C2bTx == CHOOSE t \in TxIds : TxType[t] = "C2B"

ConfirmationWebhook(u, t) ==
  [NoDoc EXCEPT !.userId = u, !.transactionId = t, !.type = "C2B_CONFIRMATION",
                !.status = "PENDING",
                !.payload = [resultCode |-> 0, status |-> "COMPLETED"],
                !.destination = EndpointUrl(u, "c2bConfirmation")]

\* The C2B confirmation of the network for the short code of user u, with the
\* TransID of the C2B transaction: the transaction is updated, or created
\* when no transaction carries the TransID.
Confirmation(u) ==
  /\ Cardinality(Existing) < Capacity
  /\ Cardinality(Running) < MaxTasks
  /\ IF u = NoUser
       THEN UNCHANGED <<transactions, webhooks, tasks>>
       ELSE /\ u = TxOwner[C2bTx]
            /\ Resolves("C2B", C2bTx) \/ Room(C2bTx)
            /\ transactions' =
                 [transactions EXCEPT ![C2bTx] =
                    IF Resolves("C2B", C2bTx)
                      THEN [@ EXCEPT !.status = "COMPLETED"]
                      ELSE [status |-> "COMPLETED", resultCode |-> NoCode,
                            bound |-> TRUE]]
            /\ IF UserConfig[u].c2bConfirmation
                 THEN Deliver(ConfirmationWebhook(u, C2bTx), CallbackOrigin)
                 ELSE UNCHANGED <<webhooks, tasks>>
  /\ reply' = Return("confirmation", <<IF u = NoUser THEN 0 ELSE C2bTx, 0>>,
                     "success", 200)
  /\ UNCHANGED <<sweeps, reentrant, faults, handlers>>

ValidationWebhook(u) ==
  [NoDoc EXCEPT !.userId = u, !.type = "C2B_VALIDATION", !.status = "PENDING",
                !.destination = EndpointUrl(u, "c2bValidation")]

\* The C2B validation of the network for the short code of user u: the
\* handler awaits sendWebhook before it answers.
Validation(u) ==
  /\ Cardinality(Existing) < Capacity
  /\ Cardinality(Running) < MaxTasks
  /\ IF u = NoUser
       THEN /\ reply' = Return("validation", <<0, 0>>, "reject", 200)
            /\ UNCHANGED <<webhooks, tasks, handlers>>
       ELSE IF UserConfig[u].c2bValidation
         THEN /\ Deliver(ValidationWebhook(u), ValidationOrigin)
              /\ handlers' = [handlers EXCEPT !.validations = @ \cup {NewId}]
              /\ reply' = NoReply
         ELSE /\ reply' = Return("validation", <<0, 0>>, "accept", 200)
              /\ UNCHANGED <<webhooks, tasks, handlers>>
  /\ UNCHANGED <<transactions, sweeps, reentrant, faults>>

\* sendWebhook has returned (undefined): the handler accepts.
ValidationReturn(n) ==
  /\ n \in handlers.validations
  /\ tasks[<<ValidationOrigin, n>>].pc = "done"
  /\ tasks' = [tasks EXCEPT ![<<ValidationOrigin, n>>] = IdleTask]
  /\ handlers' = [handlers EXCEPT !.validations = @ \ {n}]
  /\ reply' = Return("validation", <<n, 0>>, "accept", 200)
  /\ UNCHANGED <<webhooks, transactions, sweeps, reentrant, faults>>

\* --------------------------------------------------------- checkStkStatus
\* The status checkStkStatus derives from the ResultCode of the query.
QueryStatus(code) ==
  IF code = 0 THEN "COMPLETED"
  ELSE IF code \in {1, 1032} THEN "CANCELLED"
  ELSE "FAILED"

\* The status query of the owner of transaction t; the network answers with
\* ResultCode code, or with none (NoCode).
CheckStkStatus(t, code) ==
  /\ TxType[t] = "STK"
  /\ IF ~Resolves("STK", t)
       THEN /\ reply' = Return("checkStkStatus", <<t, 0>>, "notFound", 404)
            /\ UNCHANGED transactions
       ELSE /\ transactions' =
                 IF code = NoCode THEN transactions
                 ELSE [transactions EXCEPT ![t].status = QueryStatus(code),
                                           ![t].resultCode = code]
            /\ reply' = Return("checkStkStatus", <<t, code>>, "success", 200)
  /\ UNCHANGED <<webhooks, tasks, sweeps, reentrant, faults, handlers>>

\* ------------------------------------------------------------ submissions
\* initiateStkPush, initiateB2C and simulateC2B, by the type of transaction.
SubmitOp(t) ==
  CASE TxType[t] = "STK" -> "initiateStkPush"
    [] TxType[t] = "B2C" -> "initiateB2C"
    [] OTHER -> "simulateC2B"

NewTransaction == [status |-> "PENDING", resultCode |-> NoCode, bound |-> FALSE]

\* A handler that does not save the transaction before it submits.
Initiate_Unsaved(u, t) ==
  /\ handlers.submissions[t] = "idle"
  /\ Room(t)
  /\ u = TxOwner[t]
  /\ handlers' = [handlers EXCEPT !.submissions[t] = "saved"]
  /\ reply' = NoReply
  /\ UNCHANGED <<webhooks, transactions, tasks, sweeps, reentrant, faults>>

\* The handler is called by user u (NoUser: no such account): it saves the
\* transaction.
Initiate(u, t) ==
  /\ handlers.submissions[t] = "idle"
  /\ Room(t)
  /\ IF u = NoUser
       THEN /\ reply' = Return(SubmitOp(t), <<t, 0>>, "notFound", 404)
            /\ UNCHANGED <<transactions, handlers>>
       ELSE /\ u = TxOwner[t]
            /\ transactions' = [transactions EXCEPT ![t] = NewTransaction]
            /\ handlers' = [handlers EXCEPT !.submissions[t] = "saved"]
            /\ reply' = NoReply
  /\ UNCHANGED <<webhooks, tasks, sweeps, reentrant, faults>>

\* The service method the handler calls exists and reaches the network:
\* StkPush has initiate; BusinessToCustomer has no initiatePayment, and
\* C2B.simulate calls this.auth.getAccessToken, which MpesaAuth does not have.
Sends(t) == TxType[t] = "STK"

\* The call of the service throws a TypeError before any request is made: the
\* handler's catch block answers 500 and the transaction stays as saved.
SubmitThrows(t) ==
  /\ handlers.submissions[t] = "saved"
  /\ ~Sends(t)
  /\ handlers' = [handlers EXCEPT !.submissions[t] = "idle"]
  /\ reply' = Return(SubmitOp(t), <<t, 0>>, "badImplementation", 500)
  /\ UNCHANGED <<webhooks, transactions, tasks, sweeps, reentrant, faults>>

\* The request is sent to the network.
Submit(t) ==
  /\ handlers.submissions[t] = "saved"
  /\ Sends(t)
  /\ handlers' = [handlers EXCEPT !.submissions[t] = "inflight"]
  /\ reply' = NoReply
  /\ UNCHANGED <<webhooks, transactions, tasks, sweeps, reentrant, faults>>

\* The network acknowledges: the correlation ids are saved.
Ack(t) ==
  /\ handlers.submissions[t] = "inflight"
  /\ transactions' = [transactions EXCEPT ![t].bound = TRUE]
  /\ handlers' = [handlers EXCEPT !.submissions[t] = "idle"]
  /\ reply' = Return(SubmitOp(t), <<t, 0>>, "success", 200)
  /\ UNCHANGED <<webhooks, tasks, sweeps, reentrant, faults>>

\* The network refuses the request, or is not reached.
Reject(t) ==
  /\ handlers.submissions[t] = "inflight"
  /\ handlers' = [handlers EXCEPT !.submissions[t] = "idle"]
  /\ reply' = Return(SubmitOp(t), <<t, 0>>, "badRequest", 400)
  /\ UNCHANGED <<webhooks, transactions, tasks, sweeps, reentrant, faults>>

\* ------------------------------------------------------------ auth handlers
Registered(e) == handlers.auth.users[e] # NoAccount

\* generateTokens(user)
GenerateTokens(e) ==
  [access |-> Sign([id |-> e, email |-> e, role |-> "user"], "JWT_SECRET",
                   handlers.auth.now + TokenLife),
   refresh |-> Sign([id |-> e], "JWT_REFRESH_SECRET",
                    handlers.auth.now + RefreshLife)]

\* jwt.verify, and the verification of the jwt strategy: the key and exp.
Verified(jwt, key) == jwt.key = key /\ jwt.exp > handlers.auth.now

\* The validate function of the jwt strategy.
Unauthenticated == [none |-> TRUE]
Validate(jwt) ==
  IF "userId" \in DOMAIN jwt.payload
    THEN [isValid |-> TRUE, credentials |-> [userId |-> jwt.payload.userId]]
    ELSE [isValid |-> FALSE, credentials |-> Unauthenticated]

\* request.auth.credentials of a request that presents jwt.
Authenticate(jwt) ==
  IF Verified(jwt, "JWT_SECRET") /\ Validate(jwt).isValid
    THEN Validate(jwt).credentials
    ELSE Unauthenticated

\* request.auth.credentials.id
CredentialsId(credentials) ==
  IF "id" \in DOMAIN credentials THEN credentials.id ELSE "undefined"

Register(e, p) ==
  /\ IF Registered(e)
       THEN /\ reply' = Return("register", <<0, 0>>, "conflict", 409)
            /\ UNCHANGED handlers
       ELSE /\ handlers' = [handlers EXCEPT
                 !.auth.users[e] = [NoAccount EXCEPT !.password = Hash(p)],
                 !.auth.tokens = GenerateTokens(e)]
            /\ reply' = Return("register", <<0, 0>>, "success", 201)
  /\ UNCHANGED <<webhooks, transactions, tasks, sweeps, reentrant, faults>>

Login(e, p) ==
  /\ IF Registered(e) /\ handlers.auth.users[e].password = Hash(p)
       THEN /\ handlers' = [handlers EXCEPT !.auth.tokens = GenerateTokens(e)]
            /\ reply' = Return("login", <<0, 0>>, "success", 200)
       ELSE /\ reply' = Return("login", <<0, 0>>, "unauthorized", 401)
            /\ UNCHANGED handlers
  /\ UNCHANGED <<webhooks, transactions, tasks, sweeps, reentrant, faults>>

\* The client presents the refresh token it holds.
RefreshToken ==
  /\ handlers.auth.tokens # NoTokens
  /\ LET jwt == handlers.auth.tokens.refresh
     IN IF Verified(jwt, "JWT_REFRESH_SECRET") /\ Registered(jwt.payload.id)
          THEN /\ handlers' = [handlers EXCEPT
                    !.auth.tokens = GenerateTokens(jwt.payload.id)]
               /\ reply' = Return("refreshToken", <<0, 0>>, "success", 200)
          ELSE /\ reply' = Return("refreshToken", <<0, 0>>, "unauthorized", 401)
               /\ UNCHANGED handlers
  /\ UNCHANGED <<webhooks, transactions, tasks, sweeps, reentrant, faults>>

\* The client calls a protected route with the access token it holds.
GetProfile ==
  /\ handlers.auth.tokens # NoTokens
  /\ LET credentials == Authenticate(handlers.auth.tokens.access)
     IN reply' =
          IF credentials = Unauthenticated
            THEN Return("getProfile", <<0, 0>>, "unauthorized", 401)
          ELSE IF CredentialsId(credentials) \in {e \in Emails : Registered(e)}
            THEN Return("getProfile", <<0, 0>>, "success", 200)
          ELSE Return("getProfile", <<0, 0>>, "notFound", 404)
  /\ UNCHANGED <<webhooks, transactions, tasks, sweeps, reentrant, faults, handlers>>

\* The response of forgotPassword for email e, when the save of the account
\* throws (writeFails) and when it does not.
ForgotReply(e, writeFails) ==
  IF Registered(e) /\ writeFails
    THEN Return("forgotPassword", <<0, 0>>, "badImplementation", 500)
    ELSE Return("forgotPassword", <<0, 0>>, "success", 200)

ForgotPassword(e) ==
  /\ handlers.auth.minted < MaxMint
  /\ IF Registered(e)
       THEN handlers' = [handlers EXCEPT
              !.auth.users[e].resetToken = handlers.auth.minted + 1,
              !.auth.users[e].resetExpires = handlers.auth.now + ResetLife,
              !.auth.minted = @ + 1]
       ELSE UNCHANGED handlers
  /\ reply' = ForgotReply(e, FALSE)
  /\ UNCHANGED <<webhooks, transactions, tasks, sweeps, reentrant, faults>>

\* user.save() of forgotPassword throws.
ForgotSaveFault(e) ==
  /\ faults > 0
  /\ Registered(e)
  /\ faults' = faults - 1
  /\ reply' = ForgotReply(e, TRUE)
  /\ UNCHANGED <<webhooks, transactions, tasks, sweeps, reentrant, handlers>>

\* The accounts User.findOne({resetPasswordToken, resetPasswordExpires:
\* {$gt: Date.now()}}) matches.
ResetMatch(token) ==
  {e \in Emails : /\ Registered(e)
                  /\ handlers.auth.users[e].resetToken = token
                  /\ handlers.auth.users[e].resetExpires > handlers.auth.now}

\* resetPassword, up to the findOne.
ResetFind(r, token, p) ==
  /\ handlers.auth.resets[r].pc = "idle"
  /\ IF ResetMatch(token) = {}
       THEN /\ reply' = Return("resetPassword", <<r, token>>, "badRequest", 400)
            /\ UNCHANGED handlers
       ELSE \E e \in ResetMatch(token) :
              /\ handlers' = [handlers EXCEPT !.auth.resets[r] =
                     [pc |-> "hash", email |-> e, password |-> p, token |-> token]]
              /\ reply' = NoReply
  /\ UNCHANGED <<webhooks, transactions, tasks, sweeps, reentrant, faults>>

\* resetPassword, after bcrypt: the password is set, the token unset, the
\* document saved.
ResetSave(r) ==
  /\ handlers.auth.resets[r].pc = "hash"
  /\ LET req == handlers.auth.resets[r]
     IN /\ handlers' = [handlers EXCEPT
               !.auth.users[req.email] =
                  [password |-> Hash(req.password), resetToken |-> NoResetToken,
                   resetExpires |-> NoDate],
               !.auth.resets[r] = IdleReset,
               !.auth.used = @ \cup {req.token}]
        /\ reply' = Return("resetPassword", <<r, req.token>>, "success", 200)
  /\ UNCHANGED <<webhooks, transactions, tasks, sweeps, reentrant, faults>>

\* user.save() of resetPassword throws.
ResetSaveFault(r) ==
  /\ faults > 0
  /\ handlers.auth.resets[r].pc = "hash"
  /\ handlers' = [handlers EXCEPT !.auth.resets[r] = IdleReset]
  /\ faults' = faults - 1
  /\ reply' = Return("resetPassword", <<r, handlers.auth.resets[r].token>>,
                     "badImplementation", 500)
  /\ UNCHANGED <<webhooks, transactions, tasks, sweeps, reentrant>>

\* An hour passes.
Elapse ==
  /\ handlers.auth.now < MaxClock
  /\ handlers' = [handlers EXCEPT !.auth.now = @ + 1]
  /\ reply' = NoReply
  /\ UNCHANGED <<webhooks, transactions, tasks, sweeps, reentrant, faults>>

\* ------------------------------------------------------------------ clock
\* Time passes. A POST is bound to a timeout of 10 seconds, far below the
\* clock's unit, so a POST in flight ends no later than the tick after the
\* one it was issued in.
Aged(date) == IF date = NoDate THEN NoDate ELSE Min(date + 1, Oldest)

Tick ==
  /\ \A t \in TaskIds : tasks[t].pc = "post" => tasks[t].doc.lastAttempt = 0
  /\ webhooks' = [n \in NIds |-> [webhooks[n] EXCEPT !.lastAttempt = Aged(@)]]
  /\ tasks' = [t \in TaskIds |-> [tasks[t] EXCEPT !.doc.lastAttempt = Aged(@)]]
  /\ reply' = NoReply
  /\ UNCHANGED <<transactions, sweeps, reentrant, faults, handlers>>

\* --------------------------------------------------------- storage errors
\* A storage operation throws. In sendWebhook every one of them is inside the
\* try block, so control enters the catch block with the error's message.
FindFault(t) ==
  /\ faults > 0
  /\ tasks[t].pc = "find"
  /\ tasks' = [tasks EXCEPT ![t] = Catch(t, StorageError)]
  /\ faults' = faults - 1
  /\ reply' = NoReply
  /\ UNCHANGED <<webhooks, transactions, sweeps, reentrant, handlers>>

\* User.findById or the save() of the attempt throws.
AttemptFault(t) ==
  /\ faults > 0
  /\ tasks[t].pc = "attempt"
  /\ tasks' = [tasks EXCEPT ![t] = Catch(t, StorageError)]
  /\ faults' = faults - 1
  /\ reply' = NoReply
  /\ UNCHANGED <<webhooks, transactions, sweeps, reentrant, handlers>>

\* The destination answers 2xx and the save() of status SENT throws.
SentSaveFault(t, code) ==
  /\ faults > 0
  /\ tasks[t].pc = "post"
  /\ tasks' = [tasks EXCEPT ![t] = Catch(t, StorageError)]
  /\ faults' = faults - 1
  /\ reply' = NoReply
  /\ UNCHANGED <<webhooks, transactions, sweeps, reentrant, handlers>>

\* A catch block whose save() is not guarded: the error reaches the caller.
CatchSaveFault_Rethrow(t) ==
  /\ faults > 0
  /\ tasks[t].pc = "catchSave"
  /\ tasks' = [tasks EXCEPT ![t] = TaskDone(t)]
  /\ faults' = faults - 1
  /\ reply' = Returned(t, "throw")
  /\ UNCHANGED <<webhooks, transactions, sweeps, reentrant, handlers>>

\* The save() of the catch block throws: the inner catch logs the error.
CatchSaveFault(t) ==
  /\ faults > 0
  /\ tasks[t].pc = "catchSave"
  /\ tasks' = [tasks EXCEPT ![t] = TaskDone(t)]
  /\ faults' = faults - 1
  /\ reply' = Returned(t, "updateError")
  /\ UNCHANGED <<webhooks, transactions, sweeps, reentrant, handlers>>

\* Webhook.find of the sweep throws: retryFailedWebhooks logs and rethrows.
RetryFault(s) ==
  /\ faults > 0
  /\ sweeps[s].pc = "idle"
  /\ \A r \in SweepIds : r < s => sweeps[r].pc = "running"
  /\ reentrant \/ \A r \in SweepIds : sweeps[r].pc = "idle"
  /\ faults' = faults - 1
  /\ reply' = Return("retryFailedWebhooks", <<s, 0>>, "throw", 0)
  /\ UNCHANGED <<webhooks, transactions, tasks, sweeps, reentrant, handlers>>

\* sendWebhook(webhookId) with an id the store does not hold, called while
\* the store is empty: findById returns null and the call returns; when
\* findById throws, the catch block reads again, finds nothing to update, and
\* the call returns as well.
SendUnknown(n, throws) ==
  /\ Existing = {}
  /\ throws => faults > 0
  /\ faults' = IF throws THEN faults - 1 ELSE faults
  /\ reply' = Returned(<<CallbackOrigin, n>>, "notFound")
  /\ UNCHANGED <<webhooks, transactions, tasks, sweeps, reentrant, handlers>>

\* The handlers of the network's callbacks whose catch block acknowledges.
CallbackOps == {"stkCallback", "b2cResult", "b2cTimeout", "confirmation"}

\* The type of the transactions a callback handler looks up.
OpType(op) ==
  CASE op = "stkCallback" -> "STK"
    [] op = "confirmation" -> "C2B"
    [] OTHER -> "B2C"

\* A callback handler whose catch block lets the error through.
CallbackFault_Rethrow(op, cid, code) ==
  /\ faults > 0
  /\ Resolves(OpType(op), cid)
  /\ faults' = faults - 1
  /\ reply' = Return(op, <<cid, code>>, "error", 500)
  /\ UNCHANGED <<webhooks, transactions, tasks, sweeps, reentrant, handlers>>

\* The handler has found its transaction and a storage operation throws before
\* anything is written (the save() of the transaction, say): the catch block
\* acknowledges.
CallbackFault(op, cid, code) ==
  /\ faults > 0
  /\ Resolves(OpType(op), cid)
  /\ faults' = faults - 1
  /\ reply' = Return(op, <<cid, code>>, "success", 200)
  /\ UNCHANGED <<webhooks, transactions, tasks, sweeps, reentrant, handlers>>

\* The transaction is saved and then User.findById or webhook.save() throws.
WebhookSaveFault(op, cid, code) ==
  /\ faults > 0
  /\ op \in {"stkCallback", "b2cResult"}
  /\ Resolves(OpType(op), cid)
  /\ transactions' = IF op = "stkCallback" THEN StkUpdate(cid, code)
                                             ELSE B2cUpdate(cid, code)
  /\ faults' = faults - 1
  /\ reply' = Return(op, <<cid, code>>, "success", 200)
  /\ UNCHANGED <<webhooks, tasks, sweeps, reentrant, handlers>>

\* The network acknowledges and the save() of the correlation ids throws.
AckFault(t) ==
  /\ faults > 0
  /\ handlers.submissions[t] = "inflight"
  /\ handlers' = [handlers EXCEPT !.submissions[t] = "idle"]
  /\ faults' = faults - 1
  /\ reply' = Return(SubmitOp(t), <<t, 0>>, "badImplementation", 500)
  /\ UNCHANGED <<webhooks, transactions, tasks, sweeps, reentrant>>

\* ------------------------------------------------------------------- spec
InitStore ==
  /\ webhooks = [n \in NIds |-> NoDoc]
  /\ tasks = [t \in TaskIds |-> IdleTask]
  /\ sweeps = [s \in SweepIds |-> IdleSweep]
  /\ reply = NoReply
  /\ handlers = IdleHandlers

\* The STK transactions have been submitted and acknowledged by the network.
StkSubmitted ==
  [t \in TxIds |->
     IF TxType[t] = "STK" THEN [status |-> "PENDING", resultCode |-> NoCode, bound |-> TRUE]
                          ELSE NoTx]

\* The store never fails.
Init ==
  /\ InitStore
  /\ transactions = StkSubmitted
  /\ reentrant \in BOOLEAN
  /\ faults = 0

\* Up to MaxFaults storage operations throw; sweeps run one at a time.
InitF ==
  /\ InitStore
  /\ transactions = StkSubmitted
  /\ reentrant = FALSE
  /\ faults = MaxFaults

Next ==
  \/ \E cid \in CheckoutIds, code \in ResultCodes : StkCallback(cid, code)
  \/ \E t \in TaskIds : Find(t)
  \/ \E t \in TaskIds : Attempt(t)
  \/ \E t \in TaskIds, code \in HttpOk : RespondOk(t, code)
  \/ \E t \in TaskIds, code \in HttpBad : RespondFail(t, HttpErrorMessage(code))
  \/ \E t \in TaskIds, message \in NetFailures : RespondFail(t, message)
  \/ \E t \in TaskIds : CatchSave(t)
  \/ \E s \in SweepIds, batchSize \in BatchSizes : RetryFailedWebhooks(s, batchSize)
  \/ \E s \in SweepIds : SweepReturn(s)
  \/ Tick

Spec == Init /\ [][Next]_vars

\* Sweeps keep running and time advances; every await of a call in progress
\* ends: the store answers, and the POST is answered or times out after 10 s.
Fairness ==
  /\ WF_vars(\E s \in SweepIds, batchSize \in BatchSizes : RetryFailedWebhooks(s, batchSize))
  /\ WF_vars(\E s \in SweepIds : SweepReturn(s))
  /\ WF_vars(Tick)
  /\ \A t \in TaskIds :
       /\ WF_vars(Find(t))
       /\ WF_vars(Attempt(t))
       /\ WF_vars(CatchSave(t))
       /\ WF_vars(\/ \E code \in HttpOk : RespondOk(t, code)
                  \/ \E code \in HttpBad : RespondFail(t, HttpErrorMessage(code))
                  \/ \E message \in NetFailures : RespondFail(t, message))

SpecL == Init /\ [][Next]_vars /\ Fairness

NextF ==
  \/ Next
  \/ \E t \in TaskIds : FindFault(t)
  \/ \E t \in TaskIds : AttemptFault(t)
  \/ \E t \in TaskIds, code \in HttpOk : SentSaveFault(t, code)
  \/ \E t \in TaskIds : CatchSaveFault(t)
  \/ \E s \in SweepIds : RetryFault(s)
  \/ \E n \in NIds, throws \in BOOLEAN : SendUnknown(n, throws)

SpecF == InitF /\ [][NextF]_vars

\* The route handlers: nothing has been submitted yet, up to MaxFaults
\* storage operations of the handlers throw, no sweep runs.
InitH ==
  /\ InitStore
  /\ transactions = [t \in TxIds |-> NoTx]
  /\ reentrant = FALSE
  /\ faults = MaxFaults

\* Callbacks with a null correlation id are drawn for the B2C handlers, whose
\* transactions never get a ConversationID; the STK callbacks carry ids.
NextH ==
  \/ \E t \in TxIds : \E u \in {NoUser, TxOwner[t]} : Initiate(u, t)
  \/ \E t \in TxIds : Submit(t)
  \/ \E t \in TxIds : SubmitThrows(t)
  \/ \E t \in TxIds : Ack(t)
  \/ \E t \in TxIds : Reject(t)
  \/ \E t \in TxIds : AckFault(t)
  \/ \E cid \in CheckoutIds, code \in ResultCodes : StkCallback(cid, code)
  \/ \E cid \in CallbackIds, code \in ResultCodes : B2cResult(cid, code)
  \/ \E cid \in CallbackIds : B2cTimeout(cid)
  \/ \E u \in {NoUser, TxOwner[C2bTx]} : Confirmation(u)
  \/ \E u \in {NoUser} \cup Users : Validation(u)
  \/ \E n \in NIds : ValidationReturn(n)
  \/ \E t \in TxIds, code \in QueryCodes \cup {NoCode} : CheckStkStatus(t, code)
  \/ \E op \in CallbackOps, cid \in TxIds : CallbackFault(op, cid, 0)
  \/ \E op \in CallbackOps, cid \in TxIds : WebhookSaveFault(op, cid, 0)
  \/ \E t \in TaskIds : Find(t)
  \/ \E t \in TaskIds : Attempt(t)
  \/ \E t \in TaskIds, code \in HttpOk : RespondOk(t, code)
  \/ \E t \in TaskIds, code \in HttpBad : RespondFail(t, HttpErrorMessage(code))
  \/ \E t \in TaskIds, message \in NetFailures : RespondFail(t, message)
  \/ \E t \in TaskIds : CatchSave(t)

SpecH == InitH /\ [][NextH]_vars

\* The account handlers, called as functions.
NextA ==
  \/ \E e \in Emails, p \in Passwords : Register(e, p)
  \/ \E e \in Emails, p \in Passwords : Login(e, p)
  \/ RefreshToken
  \/ GetProfile
  \/ \E e \in Emails : ForgotPassword(e)
  \/ \E e \in Emails : ForgotSaveFault(e)
  \/ \E r \in ResetReqs, token \in ResetTokens, p \in Passwords :
       ResetFind(r, token, p)
  \/ \E r \in ResetReqs : ResetSave(r)
  \/ \E r \in ResetReqs : ResetSaveFault(r)
  \/ Elapse

SpecA == InitH /\ [][NextA]_vars

\* ----------------------------------------------------------------- claims
Posting(n) == {t \in TaskIds : t[2] = n /\ tasks[t].pc = "post"}

\* The sendWebhook call t has just returned through `ret`.
JustReturned(t, ret) ==
  reply.op = "sendWebhook" /\ reply.of = t /\ reply.ret = ret

\* The step is the findById of call t (nothing else moves a call off "find").
FindStep(t) == tasks[t].pc = "find" /\ tasks'[t].pc # "find"

\* The step issues the POST of call t.
PostStep(t) == tasks[t].pc # "post" /\ tasks'[t].pc = "post"

\* The step starts call t.
StartStep(t) == tasks[t].pc # "find" /\ tasks'[t].pc = "find"

\* The step is the selection of sweep s.
SelectStep(s) == sweeps[s].pc = "idle" /\ sweeps'[s].pc = "running"

C2_RetryCeiling ==
  \A t \in TaskIds :
    (~reentrant /\ (JustReturned(t, "failed") \/ JustReturned(t, "updateError")))
      => LET w == webhooks[t[2]] IN
           /\ w.attempts <= MaxRetries
           /\ w.errorMessage # NoError
           /\ w.status = IF w.attempts < MaxRetries THEN "FAILED"
                                                    ELSE "FAILED_PERMANENT"

\* C3: no two POSTs of the same webhook are in flight at the same time.
C3_OneInFlight == \A n \in NIds : Cardinality(Posting(n)) <= 1

\* C4: a webhook persisted as SENT stays SENT, and no POST is issued for it.
C4_SentIsFinal ==
  [][\A n \in NIds :
       webhooks[n].status = "SENT"
         => /\ webhooks'[n].status = "SENT"
            /\ \A t \in TaskIds : t[2] = n => ~PostStep(t)]_vars

\* C5: a sendWebhook call on a webhook whose owner has no secret leaves it
\* FAILED_PERMANENT with the configuration error recorded, attempts not
\* incremented and no POST issued.
C5_NoSecretIsPermanent ==
  \A t \in TaskIds :
    JustReturned(t, "noSecret")
      => /\ webhooks[t[2]].status = "FAILED_PERMANENT"
         /\ webhooks[t[2]].errorMessage = InvalidConfig
         /\ webhooks[t[2]].attempts = 0
         /\ Posting(t[2]) = {}

\* C6: the step that issues a POST of a webhook leaves the persisted webhook
\* showing that attempt: attempts one more than before, lastAttempt stamped
\* with the current time and status PENDING.
C6_RecordedBeforePost ==
  [][\A t \in TaskIds :
       PostStep(t)
         => /\ webhooks'[t[2]].status = "PENDING"
            /\ webhooks'[t[2]].attempts = webhooks[t[2]].attempts + 1
            /\ webhooks'[t[2]].lastAttempt = 0]_vars

C8_BackoffRespected ==
  [][\A s \in SweepIds :
       SelectStep(s)
         => /\ \A n \in sweeps'[s].selected :
                 /\ webhooks[n].lastAttempt # NoDate
                 /\ webhooks[n].lastAttempt >= RetryFloor
            /\ \A n \in NIds :
                 StartStep(<<s, n>>) => n \in sweeps'[s].selected]_vars

C8_Witness ==
  \E s \in SweepIds, n, m \in NIds :
    /\ sweeps[s].pc = "running"
    /\ n \in sweeps[s].selected
    /\ m \notin sweeps[s].selected
    /\ webhooks[m].status = "FAILED"
    /\ webhooks[m].attempts \in 1..(MaxRetries - 1)
    /\ webhooks[m].lastAttempt = 0
    /\ tasks[<<s, n>>].pc = "find"

\* C9: a sweep starts calls only for webhooks that are FAILED with attempts
\* below 5 when it selects them, and a call on a webhook that exists already
\* is started by a sweep only.
C9_SweepEligibility ==
  [][\A t \in TaskIds :
       StartStep(t)
         => IF t[1] = CallbackOrigin
              THEN ~Exists(t[2])
              ELSE /\ SelectStep(t[1])
                   /\ t[2] \in sweeps'[t[1]].selected
                   /\ webhooks[t[2]].status = "FAILED"
                   /\ webhooks[t[2]].attempts < MaxRetries]_vars

C9_Witness ==
  \E s \in SweepIds, n, m \in NIds :
    /\ sweeps[s].pc = "running"
    /\ sweeps[s].selected = {n}
    /\ tasks[<<s, n>>].pc = "find"
    /\ webhooks[n].status = "FAILED"
    /\ webhooks[m].status = "SENT"

\* C10: in a sweep every selected webhook gets its call; a call that ends,
\* however it ends, leaves the other calls of the sweep where they are; and
\* the sweep returns the number of webhooks it selected once all have ended.
C10_SweepIsolation ==
  /\ [](\A s \in SweepIds : \A n \in sweeps[s].selected :
          tasks[<<s, n>>].pc # "idle")
  /\ [][\A s \in SweepIds :
          /\ (sweeps[s].pc = "running" /\ sweeps'[s].pc = "idle")
               => /\ \A n \in sweeps[s].selected : tasks[<<s, n>>].pc = "done"
                  /\ reply' = Return("retryFailedWebhooks", <<s, 0>>, "count",
                                     Cardinality(sweeps[s].selected))
          /\ \A n, m \in sweeps[s].selected :
               (n # m /\ tasks[<<s, n>>].pc # "done" /\ tasks'[<<s, n>>].pc = "done")
                 => /\ tasks'[<<s, m>>] = tasks[<<s, m>>]
                    /\ sweeps'[s] = sweeps[s]]_vars

\* One call of a sweep has just ended on a storage error while recording a
\* failure, and the other call of the sweep has its POST in flight.
C10_Witness ==
  \E s \in SweepIds, n, m \in NIds :
    /\ n # m
    /\ sweeps[s].selected = {n, m}
    /\ faults < MaxFaults
    /\ JustReturned(<<s, n>>, "updateError")
    /\ webhooks[n].attempts < MaxRetries
    /\ tasks[<<s, m>>].pc = "post"
\* C11: when a sweep leaves an eligible webhook out, every webhook it selects
\* was last attempted at least as long ago as the one left out.
C11_OldestFirst ==
  [][\A s \in SweepIds :
       SelectStep(s)
         => \A n \in sweeps'[s].selected, m \in NIds \ sweeps'[s].selected :
              Eligible(m) => webhooks[n].lastAttempt >= webhooks[m].lastAttempt]_vars

\* C12: a sweep called with batchSize selects at most batchSize webhooks,
\* starts one sendWebhook call for each selected webhook when it selects and
\* none later, and returns the number of webhooks it selected.
C12_BatchBound ==
  [][\A s \in SweepIds :
       /\ SelectStep(s)
            => /\ \A b \in BatchSizes :
                    RetryFailedWebhooks(s, b)
                      => Cardinality(sweeps'[s].selected) <= b
               /\ \A n \in NIds :
                    StartStep(<<s, n>>) <=> n \in sweeps'[s].selected
       /\ ~SelectStep(s) => \A n \in NIds : ~StartStep(<<s, n>>)
       /\ (sweeps[s].pc = "running" /\ sweeps'[s].pc = "idle")
            => /\ reply' = Return("retryFailedWebhooks", <<s, 0>>, "count",
                                  Cardinality(sweeps[s].selected))
               /\ reply'.value <= MaxBatch]_vars

\* A sweep has just selected one webhook, whose call has not run yet, while
\* an older eligible webhook was left out: the batch size was 1.
C12_Witness ==
  \E s \in SweepIds, n, m \in NIds :
    /\ n # m
    /\ sweeps[s].pc = "running"
    /\ sweeps[s].selected = {n}
    /\ tasks[<<s, n>>].pc = "find"
    /\ webhooks[n].lastAttempt = RetryFloor + 1
    /\ Eligible(m)
    /\ webhooks[m].lastAttempt = Oldest
\* The step is the return of callback handler op for correlation id cid.
Handled(op, cid) == reply'.op = op /\ reply'.of[1] = cid

\* The transactions of the type handler op looks up that carry correlation
\* id cid; when cid is null, those that carry no correlation id.
HitTx(op, cid) ==
  {t \in TxIds :
     /\ TxType[t] = OpType(op) /\ transactions[t] # NoTx
     /\ \/ cid = NullId /\ ~transactions[t].bound
        \/ cid = t /\ transactions[t].bound}

Hit(op, cid) == HitTx(op, cid) # {}

\* The endpoint of webhookConfig.endpoints handler op reads.
Endpoint(op) == IF op = "confirmation" THEN "c2bConfirmation" ELSE op

\* C13: whatever a callback handler returns is the success acknowledgement.
C13_AlwaysAcknowledges ==
  reply.op \in CallbackOps => (reply.ret = "success" /\ reply.value = 200)

\* A B2C result for a subscribed client has been acknowledged although the
\* save of its webhook was rejected: the transaction is updated, no webhook
\* exists.
C13_Witness ==
  \E tx \in TxIds :
    /\ reply = Return("b2cResult", <<NullId, 0>>, "success", 200)
    /\ TxType[tx] = "B2C"
    /\ transactions[tx].status = "COMPLETED"
    /\ UserConfig[TxOwner[tx]].b2cResult
    /\ Existing = {}
    /\ faults = MaxFaults

C15_StatusDerivation ==
  [][\A op \in {"stkCallback", "b2cResult"}, cid \in TxIds, code \in ResultCodes :
       (Handled(op, cid) /\ reply'.of[2] = code /\ Hit(op, cid) /\ faults' = faults)
         => transactions'[cid].status = QueryStatus(code)]_vars

\* C16: the status of a transaction changes from PENDING only, and to one of
\* COMPLETED, FAILED, CANCELLED, TIMEOUT.
C16_Lifecycle ==
  [][\A t \in TxIds :
       (transactions[t] # NoTx /\ transactions'[t].status # transactions[t].status)
         => /\ transactions[t].status = "PENDING"
            /\ transactions'[t].status \in
                 {"COMPLETED", "FAILED", "CANCELLED", "TIMEOUT"}]_vars

\* C17: a callback that resolves to a transaction whose owner has the
\* endpoint of that callback saves a webhook and starts its delivery.
C17_NotificationCreated ==
  [][\A op \in CallbackOps, cid \in TxIds \cup {NullId} :
       (Handled(op, cid) /\ Hit(op, cid) /\ faults' = faults
          /\ \A tx \in HitTx(op, cid) : UserConfig[TxOwner[tx]][Endpoint(op)])
         => \E n \in NIds :
              /\ ~Exists(n)
              /\ webhooks'[n].transactionId \in HitTx(op, cid)
              /\ StartStep(<<CallbackOrigin, n>>)]_vars

\* C18: while the POST of a webhook is in flight, no handler is waiting for
\* it to answer the network.
C18_AckBeforeDelivery ==
  \A t \in TaskIds : tasks[t].pc = "post" => t[2] \notin handlers.validations

\* C20: a submission handler first persists the transaction, PENDING and
\* without correlation id; a request is sent to the network only after that,
\* and the transaction gets its correlation id only in the step in which the
\* network's acknowledgement is handled.
C20_SavedBeforeSubmission ==
  /\ [](\A t \in TxIds :
          handlers.submissions[t] \in {"saved", "inflight"}
            => transactions[t] # NoTx /\ ~transactions[t].bound)
  /\ [][\A t \in TxIds :
          /\ (handlers.submissions[t] = "idle"
                 /\ handlers'.submissions[t] # "idle")
               => /\ handlers'.submissions[t] = "saved"
                  /\ transactions'[t] = NewTransaction
          /\ (handlers.submissions[t] # "inflight"
                 /\ handlers'.submissions[t] = "inflight")
               => handlers.submissions[t] = "saved"
          /\ (transactions[t] # NoTx /\ ~transactions[t].bound
                 /\ transactions'[t].bound)
               => /\ handlers.submissions[t] = "inflight"
                  /\ reply' = Return(SubmitOp(t), <<t, 0>>, "success", 200)]_vars

\* The network has acknowledged a submission and the handler has bound the
\* transaction, still PENDING, to its correlation id.
C20_Witness ==
  \E t \in TxIds :
    /\ reply = Return(SubmitOp(t), <<t, 0>>, "success", 200)
    /\ transactions[t] = [NewTransaction EXCEPT !.bound = TRUE]

\* C21: the persisted attempts of a webhook never decreases, whatever calls
\* of sendWebhook and sweeps run and however they interleave.
C21_AttemptsMonotone ==
  [][\A n \in NIds :
       Exists(n) => webhooks'[n].attempts >= webhooks[n].attempts]_vars

\* The paths sendWebhook assigns.
DeliveryPaths == {"status", "attempts", "lastAttempt", "response", "errorMessage"}

\* C22: once a webhook is created, no step of sendWebhook or of a sweep
\* changes its payload, destination or owner: only status, attempts,
\* lastAttempt, response and errorMessage change.
C22_PayloadImmutable ==
  [][\A n \in NIds :
       Exists(n) => \A f \in (DOMAIN NoDoc) \ DeliveryPaths :
                      webhooks'[n][f] = webhooks[n][f]]_vars

\* A webhook delivered at its second attempt or later still has the payload,
\* destination and owner it was created with.
C22_Witness ==
  \E n \in NIds :
    /\ JustReturned(<<1, n>>, "sent")
    /\ webhooks[n].attempts >= 2
    /\ webhooks[n].status = "SENT"
    /\ \E cid \in TxIds, code \in ResultCodes :
         /\ webhooks[n].payload = NewWebhook(cid, code).payload
         /\ webhooks[n].destination = EndpointUrl(TxOwner[cid], "stkCallback")
         /\ webhooks[n].userId = TxOwner[cid]

C24_OutcomePersisted ==
  \A t \in TaskIds :
    (/\ reply.op = "sendWebhook" /\ reply.of = t
     /\ reply.ret \in {"sent", "failed", "updateError"}
     /\ \A r \in TaskIds : r[2] = t[2] => tasks[r].pc \in {"idle", "done"})
      => \/ /\ webhooks[t[2]].status = "SENT"
            /\ webhooks[t[2]].response # NoResponse
         \/ /\ webhooks[t[2]].status \in {"FAILED", "FAILED_PERMANENT"}
            /\ webhooks[t[2]].errorMessage # NoError

\* The return statements of sendWebhook; all of them return undefined.
SendWebhookReturns ==
  {"notFound", "alreadySent", "noSecret", "sent", "failed", "updateError"}

\* C25: every sendWebhook call that ends, ends by one of its return
\* statements, whatever failed: no error reaches its caller.
C25_NeverRaises ==
  reply.op = "sendWebhook"
    => reply.ret \in SendWebhookReturns /\ reply.value \in {0} \cup HttpOk

\* The POST of a call failed, then the save() that records the failure threw,
\* and the call has returned.
C25_Witness ==
  \E t \in TaskIds :
    /\ JustReturned(t, "updateError")
    /\ faults < MaxFaults
    /\ webhooks[t[2]].status = "PENDING"
    /\ webhooks[t[2]].attempts = 1

\* C26: while sweeps keep running and time advances, every webhook the store
\* holds is eventually SENT or FAILED_PERMANENT.
C26_EventualResolution ==
  \A n \in NIds :
    [](Exists(n) => <>(webhooks[n].status \in {"SENT", "FAILED_PERMANENT"}))

\* C27: after the timeout callback for a transaction that is PENDING, the
\* transaction is persisted with status TIMEOUT.
C27_TimedOut ==
  [][\A cid \in TxIds \cup {NullId} :
       (/\ Handled("b2cTimeout", cid) /\ Hit("b2cTimeout", cid)
        /\ \A tx \in HitTx("b2cTimeout", cid) : transactions[tx].status = "PENDING"
        /\ faults' = faults)
         => \E tx \in HitTx("b2cTimeout", cid) :
              transactions'[tx].status = "TIMEOUT"]_vars

\* C28: the persisted attempts of a webhook never exceeds maxRetries, and no
\* POST is issued for a webhook whose persisted attempts has reached it.
C28_AttemptCeiling ==
  /\ [](\A n \in NIds : webhooks[n].attempts <= MaxRetries)
  /\ [][\A t \in TaskIds :
          PostStep(t) => webhooks[t[2]].attempts < MaxRetries]_vars

\* C29: no two webhooks of the same type belong to the same transaction.
C29_OnePerOutcome ==
  \A n, m \in Existing :
    (n # m /\ webhooks[n].transactionId # 0
       /\ webhooks[n].transactionId = webhooks[m].transactionId)
      => webhooks[n].type # webhooks[m].type

\* C30: every type and status a handler gives a new webhook, every status
\* sendWebhook saves, and every status a handler gives a transaction is a
\* value of the schema's enum for that path.
C30_WritesWithinEnums ==
  [][/\ \A cid \in TxIds \cup {NullId} :
          /\ \A tx \in HitTx("b2cResult", cid) :
               (/\ Handled("b2cResult", cid)
                /\ UserConfig[TxOwner[tx]].b2cResult /\ faults' = faults)
                 => ValidNew(B2cWebhook(tx, reply'.of[2]))
          /\ \A tx \in HitTx("stkCallback", cid) :
               (/\ Handled("stkCallback", cid)
                /\ UserConfig[TxOwner[tx]].stkCallback /\ faults' = faults)
                 => ValidNew(NewWebhook(tx, reply'.of[2]))
          /\ \A tx \in HitTx("b2cTimeout", cid) :
               (Handled("b2cTimeout", cid) /\ faults' = faults)
                 => TimeoutUpdate(tx)[tx].status \in TxStatusEnum
     /\ \A t \in TaskIds :
          (tasks[t].pc = "catchSave" /\ tasks'[t].pc # "catchSave"
             /\ faults' = faults)
            => Valid([doc |-> tasks[t].doc, mod |-> tasks[t].mod])]_vars

\* C31: a B2C submission whose transaction is saved sends its request to the
\* network; when the network accepts it the handler stores the ConversationID
\* on that transaction; a result callback carrying that ConversationID then
\* moves the transaction out of PENDING.
C31_B2cSubmitThenCallback ==
  [][\A t \in TxIds :
       TxType[t] = "B2C"
         => /\ (handlers.submissions[t] = "saved"
                  /\ handlers'.submissions[t] # "saved")
                => handlers'.submissions[t] = "inflight"
            /\ (handlers.submissions[t] = "inflight"
                  /\ reply' = Return(SubmitOp(t), <<t, 0>>, "success", 200))
                => transactions'[t].bound
            /\ (/\ Handled("b2cResult", t) /\ Hit("b2cResult", t)
                 /\ transactions[t].status = "PENDING" /\ faults' = faults)
                => transactions'[t].status # "PENDING"]_vars

\* C32: a submission that ends without the network's acknowledgement answers
\* an error and leaves the transaction as it is, without correlation id; and
\* no step changes the status of a transaction that has no correlation id and
\* no submission under way.
C32_PendingOrphan ==
  [][\A t \in TxIds :
       /\ (/\ handlers.submissions[t] \in {"saved", "inflight"}
            /\ handlers'.submissions[t] = "idle"
            /\ reply'.ret # "success")
           => /\ reply'.op = SubmitOp(t)
              /\ reply'.value >= 400
              /\ transactions'[t] = transactions[t]
              /\ ~transactions[t].bound
       /\ (/\ transactions[t] # NoTx /\ ~transactions[t].bound
            /\ handlers.submissions[t] = "idle")
           => transactions'[t].status = transactions[t].status]_vars

\* C33: the validation handler that has awaited the delivery of its webhook
\* answers the network with the body the client's endpoint responded with
\* when the endpoint responded, and with the default Accept when it did not;
\* it answers Reject only without having created a webhook.
C33_ValidationAnswer ==
  [][/\ \A n \in NIds :
          (n \in handlers.validations /\ n \notin handlers'.validations)
            => /\ reply'.op = "validation"
               /\ reply'.ret = IF webhooks[n].response # NoResponse
                                 THEN "client" ELSE "accept"
     /\ (reply'.op = "validation" /\ reply'.ret = "reject")
          => /\ webhooks' = webhooks
             /\ handlers' = handlers]_vars

\* C34: the access token that register, login or refreshToken issued last is
\* accepted by the validate function of the jwt strategy, and the id the
\* protected handlers read from the credentials is that of the user the
\* token was issued to.
C34_IssuedTokensUsable ==
  handlers.auth.tokens # NoTokens
    => LET jwt == handlers.auth.tokens.access
       IN /\ Validate(jwt).isValid
          /\ CredentialsId(Validate(jwt).credentials) = jwt.payload.id

\* C35: resetPassword succeeds with a reset token at most once, and only on
\* a request that found the token unexpired; a resetPassword that fails
\* leaves the accounts unchanged.
C35_ResetTokenSingleUse ==
  [][\A r \in ResetReqs :
       /\ (reply'.op = "resetPassword" /\ reply'.of[1] = r)
            => IF reply'.ret = "success"
                 THEN reply'.of[2] \notin handlers.auth.used
                 ELSE handlers'.auth.users = handlers.auth.users
       /\ (handlers.auth.resets[r].pc = "idle"
              /\ handlers'.auth.resets[r].pc = "hash")
            => LET req == handlers'.auth.resets[r]
               IN /\ handlers.auth.users[req.email].resetToken = req.token
                  /\ handlers.auth.users[req.email].resetExpires
                       > handlers.auth.now]_vars

\* C36: the response of forgotPassword is the same for a registered and an
\* unregistered email, whether or not the store accepts writes.
C36_ForgotPasswordUniform ==
  \A writeFails \in BOOLEAN : \A e1, e2 \in Emails :
    ForgotReply(e1, writeFails) = ForgotReply(e2, writeFails)
====
